---- MODULE Spec2Model ----
(***************************************************************************)
(* The transcription request lifecycle of src/project/src/App.tsx: the     *)
(* React state of the App component, its event handlers and the async      *)
(* continuation steps of transcribeAudio.                                   *)
(*                                                                          *)
(* Strings are TLA+ strings; String.prototype.startsWith / includes, the   *)
(* template literals, JSON.parse and JSON.stringify are computed on them.   *)
(* An optional field (a TypeScript `?:` field, a nullable useState slot)    *)
(* is None when absent and Some(v) when set.                                *)
(***************************************************************************)
EXTENDS Integers, Sequences, FiniteSets, Bags, TLC

None == <<>>
Some(v) == <<v>>

(***************************************************************************)
(* String primitives                                                        *)
(***************************************************************************)

\* s.startsWith(prefix)
StartsWith(s, prefix) ==
    /\ Len(prefix) <= Len(s)
    /\ SubSeq(s, 1, Len(prefix)) = prefix

\* s.includes(sub)
Includes(s, sub) ==
    \E i \in 1..(Len(s) - Len(sub) + 1) : SubSeq(s, i, i + Len(sub) - 1) = sub

\* the character of s at position i (1-based), "" past the end
Ch(s, i) == IF i >= 1 /\ i <= Len(s) THEN SubSeq(s, i, i) ELSE ""

\* whether s holds the literal word at position i
At(s, i, word) ==
    /\ i + Len(word) - 1 <= Len(s)
    /\ SubSeq(s, i, i + Len(word) - 1) = word

(***************************************************************************)
(* JavaScript values as JSON.parse produces them                            *)
(***************************************************************************)

Undefined == [type |-> "undefined"]
JNull == [type |-> "null"]
JString(str) == [type |-> "string", s |-> str]
JNumber(num) == [type |-> "number", n |-> num]
JBool(bool) == [type |-> "boolean", b |-> bool]
JArray(elems) == [type |-> "array", items |-> elems]
JObject(mems) == [type |-> "object", members |-> mems]

Whitespace == {" ", "\n", "\t", "\r"}
Digit == [c \in {"0", "1", "2", "3", "4", "5", "6", "7", "8", "9"} |->
            CASE c = "0" -> 0 [] c = "1" -> 1 [] c = "2" -> 2 [] c = "3" -> 3
              [] c = "4" -> 4 [] c = "5" -> 5 [] c = "6" -> 6 [] c = "7" -> 7
              [] c = "8" -> 8 [] c = "9" -> 9]

ParseFail(i) == [ok |-> FALSE, value |-> Undefined, next |-> i]
ParseOk(v, i) == [ok |-> TRUE, value |-> v, next |-> i]

RECURSIVE SkipWs(_, _)
SkipWs(s, i) == IF Ch(s, i) \in Whitespace THEN SkipWs(s, i + 1) ELSE i

\* a string literal whose opening quote is before `start`; escapes are not
\* part of the modelled grammar (no body of the model contains a backslash)
RECURSIVE ParseString(_, _, _)
ParseString(s, start, j) ==
    IF j > Len(s) \/ Ch(s, j) = "\\" THEN ParseFail(j)
    ELSE IF Ch(s, j) = "\"" THEN ParseOk(JString(SubSeq(s, start, j - 1)), j + 1)
    ELSE ParseString(s, start, j + 1)

\* an unsigned integer literal
RECURSIVE ParseNumber(_, _, _)
ParseNumber(s, j, acc) ==
    IF Ch(s, j) \in DOMAIN Digit
    THEN ParseNumber(s, j + 1, 10 * acc + Digit[Ch(s, j)])
    ELSE ParseOk(JNumber(acc), j)

\* obj[key] = v on a JavaScript object: a repeated key keeps its position and
\* takes the later value
SetMember(mems, key, v) ==
    IF \E k \in 1..Len(mems) : mems[k].key = key
    THEN [k \in 1..Len(mems) |->
            IF mems[k].key = key THEN [key |-> key, value |-> v] ELSE mems[k]]
    ELSE Append(mems, [key |-> key, value |-> v])

RECURSIVE ParseValue(_, _)
RECURSIVE ParseElements(_, _, _)
RECURSIVE ParseMembers(_, _, _)

\* the elements of an array, i at the start of an element
ParseElements(s, i, acc) ==
    LET e == ParseValue(s, i)
        j == SkipWs(s, e.next)
    IN  IF ~e.ok THEN e
        ELSE IF Ch(s, j) = "," THEN ParseElements(s, SkipWs(s, j + 1), Append(acc, e.value))
        ELSE IF Ch(s, j) = "]" THEN ParseOk(JArray(Append(acc, e.value)), j + 1)
        ELSE ParseFail(j)

\* the members of an object, i at the start of a key
ParseMembers(s, i, acc) ==
    IF Ch(s, i) # "\"" THEN ParseFail(i)
    ELSE
    LET k == ParseString(s, i + 1, i + 1)
        c == SkipWs(s, k.next)
    IN  IF ~k.ok \/ Ch(s, c) # ":" THEN ParseFail(c)
        ELSE
        LET v == ParseValue(s, SkipWs(s, c + 1))
            j == SkipWs(s, v.next)
            mems == SetMember(acc, k.value.s, v.value)
        IN  IF ~v.ok THEN v
            ELSE IF Ch(s, j) = "," THEN ParseMembers(s, SkipWs(s, j + 1), mems)
            ELSE IF Ch(s, j) = "}" THEN ParseOk(JObject(mems), j + 1)
            ELSE ParseFail(j)

ParseValue(s, i) ==
    LET c == Ch(s, i) IN
    IF c = "{" THEN
        (IF Ch(s, SkipWs(s, i + 1)) = "}"
         THEN ParseOk(JObject(<<>>), SkipWs(s, i + 1) + 1)
         ELSE ParseMembers(s, SkipWs(s, i + 1), <<>>))
    ELSE IF c = "[" THEN
        (IF Ch(s, SkipWs(s, i + 1)) = "]"
         THEN ParseOk(JArray(<<>>), SkipWs(s, i + 1) + 1)
         ELSE ParseElements(s, SkipWs(s, i + 1), <<>>))
    ELSE IF c = "\"" THEN ParseString(s, i + 1, i + 1)
    ELSE IF c \in DOMAIN Digit THEN ParseNumber(s, i, 0)
    ELSE IF At(s, i, "null") THEN ParseOk(JNull, i + 4)
    ELSE IF At(s, i, "true") THEN ParseOk(JBool(TRUE), i + 4)
    ELSE IF At(s, i, "false") THEN ParseOk(JBool(FALSE), i + 5)
    ELSE ParseFail(i)

\* JSON.parse(text): [ok |-> TRUE, value |-> v], or ok = FALSE for the
\* SyntaxError it throws
JSONparse(text) ==
    LET r == ParseValue(text, SkipWs(text, 1)) IN
    IF r.ok /\ SkipWs(text, r.next) = Len(text) + 1
    THEN [ok |-> TRUE, value |-> r.value]
    ELSE [ok |-> FALSE, value |-> Undefined]

RECURSIVE Stringify(_, _)
RECURSIVE StringifyItems(_, _, _)
RECURSIVE StringifyMembers(_, _, _)

\* the lines of an array's elements from element k on, each at `indent`
StringifyItems(elems, k, indent) ==
    IF k > Len(elems) THEN ""
    ELSE indent \o Stringify(elems[k], indent)
         \o (IF k < Len(elems) THEN ",\n" ELSE "\n")
         \o StringifyItems(elems, k + 1, indent)

StringifyMembers(mems, k, indent) ==
    IF k > Len(mems) THEN ""
    ELSE indent \o "\"" \o mems[k].key \o "\": " \o Stringify(mems[k].value, indent)
         \o (IF k < Len(mems) THEN ",\n" ELSE "\n")
         \o StringifyMembers(mems, k + 1, indent)

\* JSON.stringify(v, null, 2) of a parsed value, nested at `indent`
Stringify(v, indent) ==
    CASE v.type = "null" -> "null"
      [] v.type = "string" -> "\"" \o v.s \o "\""
      [] v.type = "number" -> ToString(v.n)
      [] v.type = "boolean" -> (IF v.b THEN "true" ELSE "false")
      [] v.type = "array" ->
            (IF v.items = <<>> THEN "[]"
             ELSE "[\n" \o StringifyItems(v.items, 1, indent \o "  ") \o indent \o "]")
      [] v.type = "object" ->
            (IF v.members = <<>> THEN "{}"
             ELSE "{\n" \o StringifyMembers(v.members, 1, indent \o "  ") \o indent \o "}")

JSONstringify(v) == Stringify(v, "")

\* v[key] for a value that is neither null nor undefined
GetProp(v, key) ==
    IF v.type = "object" /\ \E k \in 1..Len(v.members) : v.members[k].key = key
    THEN v.members[CHOOSE k \in 1..Len(v.members) : v.members[k].key = key].value
    ELSE Undefined

\* the truthiness `||` and `if` test
Truthy(v) ==
    CASE v.type \in {"undefined", "null"} -> FALSE
      [] v.type = "string" -> v.s # ""
      [] v.type = "number" -> v.n # 0
      [] v.type = "boolean" -> v.b
      [] OTHER -> TRUE

(***************************************************************************)
(* Inputs                                                                   *)
(***************************************************************************)

\* the most requests that exist at once (pending, or finished with their
\* timer still armed)
MaxRequests == 2

\* the 25MB limit of handleFileSelect
MaxFileSize == 25 * 1024 * 1024

\* candidate files the picker or a drop can hand to handleFileSelect
Files ==
    { [name |-> "a.mp3", type |-> "audio/mpeg", size |-> 1024],
      [name |-> "b.wav", type |-> "audio/wav", size |-> MaxFileSize],
      [name |-> "c.wav", type |-> "audio/wav", size |-> MaxFileSize + 1],
      [name |-> "d.mp4", type |-> "video/mp4", size |-> 1024],
      [name |-> "e.mp4", type |-> "video/mp4", size |-> MaxFileSize + 1],
      [name |-> "f.aud", type |-> "application/vnd.audiograph", size |-> 1024],
      [name |-> "g", type |-> "", size |-> 0] }

\* HTTP status codes a response can carry
Statuses == {200, 403, 500}

\* response.headers.get('content-type'): null, or the header's value
ContentTypes == {None, Some("text/html"), Some("application/json; charset=utf-8")}

\* body texts of non-2xx responses
ErrorBodies ==
    { "<h1>Visit Site</h1>",
      "see https://ngrok.com",
      "{\"detail\": \"ngrok-skip-browser-warning\"}",
      "{\"detail\": \"Not Found\"}",
      "Bad Gateway",
      "TypeError: boom",
      "ngrok warning" }

\* body texts of 2xx responses
OkBodies ==
    { "{\"transcript\": \"hello world\"}",
      "{\"text\": \"alt text\"}",
      "{\"transcript\": \"\", \"text\": \"alt text\"}",
      "{\"transcript\": \"hello world\", \"text\": \"alt text\"}",
      "{\"transcript\": null}",
      "{\"transcript\": 7}",
      "{}",
      "[]",
      "null",
      "Bad Gateway" }

\* what awaiting the body yields: Some(text), or None when the read rejects
BodyReads(texts) == {None} \cup {Some(t) : t \in texts}

\* a thrown Error object (stack, cause are not modelled)
Error(name, message) == [isError |-> TRUE, name |-> name, message |-> message]

\* what fetch rejects with when the network fails, by browser engine
TransportErrors ==
    { Error("TypeError", "Failed to fetch"),
      Error("TypeError", "NetworkError when attempting to fetch resource."),
      Error("TypeError", "Load failed") }

\* what fetch rejects with when controller.abort() is called
AbortError == Error("AbortError", "signal is aborted without reason")

\* the TypeError of reading a property of null, by browser engine
NullReadErrors ==
    { Error("TypeError", "Cannot read properties of null (reading 'transcript')"),
      Error("TypeError", "null is not an object (evaluating 'result.transcript')") }

(***************************************************************************)
(* State                                                                    *)
(***************************************************************************)

VARIABLES
    file,               \* useState<File | null>
    audioUrl,           \* useState<string | null>
    isPlaying,          \* useState(false)
    transcription,      \* useState<TranscriptionState>
    showNgrokWarning,   \* useState(false)
    showDebugInfo,      \* useState(false)
    requests            \* bag of the transcribeAudio invocations not yet
                        \* finished or with their timer still armed

vars == <<file, audioUrl, isPlaying, transcription, showNgrokWarning,
          showDebugInfo, requests>>

\* interface TranscriptionState
TranscriptionState(status, transcript, error, progress, fullError) ==
    [status |-> status, transcript |-> transcript, error |-> error,
     progress |-> progress, fullError |-> fullError]

Idle == TranscriptionState("idle", None, None, None, None)

\* one invocation of transcribeAudio: pc is the await it is suspended at
\* ("fetch", "errBody", "okBody") or "done"; timer is whether its setTimeout
\* is armed; status is response.status once fetch has resolved; contentType
\* is the local of the non-2xx branch. The FormData it sent is not read again
\* and is not kept.
Request(pc, timer, status, contentType) ==
    [pc |-> pc, timer |-> timer, status |-> status, contentType |-> contentType]

Replace(old, new) == (requests (-) SetToBag({old})) (+) SetToBag({new})
Remove(old) == requests (-) SetToBag({old})

Init ==
    /\ file = None
    /\ audioUrl = None
    /\ isPlaying = FALSE
    /\ transcription = Idle
    /\ showNgrokWarning = FALSE
    /\ showDebugInfo = FALSE
    /\ requests = EmptyBag

(***************************************************************************)
(* File selection                                                           *)
(***************************************************************************)

\* mutant: the type is searched for "audio" instead of tested for the prefix
IsAudioTypeAnywhere(type) == Includes(type, "audio")

IsAudioType(type) == StartsWith(type, "audio/")

\* mutant: the limit itself is rejected
TooLargeInclusive(size) == size >= MaxFileSize

TooLarge(size) == size > MaxFileSize

\* URL.createObjectURL(selectedFile)
CreateObjectURL(f) == "blob:" \o f.name

\* mutant: an accepted file leaves the Request State as it was
handleFileSelectKeepingState(selectedFile) ==
    IF ~IsAudioType(selectedFile.type) THEN
        /\ transcription' = TranscriptionState("error", None,
                                Some("Please select a valid audio file"), None, None)
        /\ UNCHANGED <<file, audioUrl, isPlaying, showNgrokWarning, showDebugInfo, requests>>
    ELSE IF TooLarge(selectedFile.size) THEN
        /\ transcription' = TranscriptionState("error", None,
                                Some("File size must be less than 25MB"), None, None)
        /\ UNCHANGED <<file, audioUrl, isPlaying, showNgrokWarning, showDebugInfo, requests>>
    ELSE
        /\ file' = Some(selectedFile)
        /\ audioUrl' = Some(CreateObjectURL(selectedFile))
        /\ isPlaying' = FALSE
        /\ UNCHANGED <<transcription, showNgrokWarning, showDebugInfo, requests>>

handleFileSelect(selectedFile) ==
    IF ~IsAudioType(selectedFile.type) THEN
        /\ transcription' = TranscriptionState("error", None,
                                Some("Please select a valid audio file"), None, None)
        /\ UNCHANGED <<file, audioUrl, isPlaying, showNgrokWarning, showDebugInfo, requests>>
    ELSE IF TooLarge(selectedFile.size) THEN
        /\ transcription' = TranscriptionState("error", None,
                                Some("File size must be less than 25MB"), None, None)
        /\ UNCHANGED <<file, audioUrl, isPlaying, showNgrokWarning, showDebugInfo, requests>>
    ELSE
        /\ file' = Some(selectedFile)
        /\ audioUrl' = Some(CreateObjectURL(selectedFile))
        /\ transcription' = Idle
        /\ isPlaying' = FALSE
        /\ UNCHANGED <<showNgrokWarning, showDebugInfo, requests>>

\* the play/pause button, rendered with the audio player
togglePlayPause ==
    /\ audioUrl # None
    /\ isPlaying' = ~isPlaying
    /\ UNCHANGED <<file, audioUrl, transcription, showNgrokWarning, showDebugInfo, requests>>

\* onEnded of the audio element
audioEnded ==
    /\ audioUrl # None
    /\ isPlaying
    /\ isPlaying' = FALSE
    /\ UNCHANGED <<file, audioUrl, transcription, showNgrokWarning, showDebugInfo, requests>>

(***************************************************************************)
(* transcribeAudio: the catch block                                         *)
(***************************************************************************)

TimeoutMessage == "Request timed out. Please try again with a shorter audio file."

UnableToConnectMessage ==
    "Unable to connect to the transcription service. Please visit the API URL first to bypass the ngrok warning page."

NgrokMessage == "Please visit the API URL first to bypass the ngrok warning page"

\* mutant: the timeout is looked for under the name "TimeoutError"
ClassifyByTimeoutError(error) ==
    IF error.isError THEN
        LET fullError == [name |-> error.name, message |-> error.message] IN
        IF error.name = "TimeoutError" THEN
            [errorMessage |-> TimeoutMessage, fullError |-> fullError, ngrok |-> FALSE]
        ELSE IF \/ Includes(error.message, "Failed to fetch")
                \/ Includes(error.message, "NetworkError")
                \/ Includes(error.message, "TypeError") THEN
            [errorMessage |-> UnableToConnectMessage, fullError |-> fullError, ngrok |-> TRUE]
        ELSE IF Includes(error.message, "ngrok warning") THEN
            [errorMessage |-> error.message, fullError |-> fullError, ngrok |-> TRUE]
        ELSE
            [errorMessage |-> error.message, fullError |-> fullError, ngrok |-> FALSE]
    ELSE
        [errorMessage |-> "Failed to transcribe audio",
         fullError |-> [type |-> error.type, value |-> error.value],
         ngrok |-> TRUE]

\* the catch block's classification of the thrown value: the message shown,
\* the bundle kept (stack, cause and timestamp are not modelled) and whether
\* it calls setShowNgrokWarning(true)
Classify(error) ==
    IF error.isError THEN
        LET fullError == [name |-> error.name, message |-> error.message] IN
        IF error.name = "AbortError" THEN
            [errorMessage |-> TimeoutMessage, fullError |-> fullError, ngrok |-> FALSE]
        ELSE IF \/ Includes(error.message, "Failed to fetch")
                \/ Includes(error.message, "NetworkError")
                \/ Includes(error.message, "TypeError") THEN
            [errorMessage |-> UnableToConnectMessage, fullError |-> fullError, ngrok |-> TRUE]
        ELSE IF Includes(error.message, "ngrok warning") THEN
            [errorMessage |-> error.message, fullError |-> fullError, ngrok |-> TRUE]
        ELSE
            [errorMessage |-> error.message, fullError |-> fullError, ngrok |-> FALSE]
    ELSE
        [errorMessage |-> "Failed to transcribe audio",
         fullError |-> [type |-> error.type, value |-> error.value],
         ngrok |-> TRUE]

\* mutant: the advisory is set to what this failure says, not only raised
CatchOverwritingAdvisory(error, raised) ==
    LET c == Classify(error) IN
    /\ transcription' = TranscriptionState("error", None, Some(c.errorMessage),
                                           None, Some(c.fullError))
    /\ showNgrokWarning' = (raised \/ c.ngrok)

\* mutant: the state set by the catch block carries no bundle
CatchWithoutBundle(error, raised) ==
    LET c == Classify(error) IN
    /\ transcription' = TranscriptionState("error", None, Some(c.errorMessage),
                                           None, None)
    /\ showNgrokWarning' = (showNgrokWarning \/ raised \/ c.ngrok)

\* the catch block run on `error`; `raised` is whether the try block called
\* setShowNgrokWarning(true) before throwing
Catch(error, raised) ==
    LET c == Classify(error) IN
    /\ transcription' = TranscriptionState("error", None, Some(c.errorMessage),
                                           None, Some(c.fullError))
    /\ showNgrokWarning' = (showNgrokWarning \/ raised \/ c.ngrok)

(***************************************************************************)
(* transcribeAudio: from the click to the first await                       *)
(***************************************************************************)

\* the Transcribe button is rendered with the audio player and disabled
\* while the status is uploading or processing
TranscribeEnabled ==
    /\ audioUrl # None
    /\ transcription.status \notin {"uploading", "processing"}

\* mutant: the state set on submit is spread over the previous one
transcribeAudioSpreading ==
    /\ TranscribeEnabled
    /\ file # None
    /\ BagCardinality(requests) < MaxRequests
    /\ transcription' = [transcription EXCEPT !.status = "uploading", !.progress = Some(0)]
    /\ requests' = requests (+) SetToBag({Request("fetch", TRUE, 0, None)})
    /\ UNCHANGED <<file, audioUrl, isPlaying, showNgrokWarning, showDebugInfo>>

transcribeAudio ==
    /\ TranscribeEnabled
    /\ file # None
    /\ BagCardinality(requests) < MaxRequests
    /\ transcription' = TranscriptionState("uploading", None, None, Some(0), None)
    /\ requests' = requests (+) SetToBag({Request("fetch", TRUE, 0, None)})
    /\ UNCHANGED <<file, audioUrl, isPlaying, showNgrokWarning, showDebugInfo>>

(***************************************************************************)
(* transcribeAudio: after `await fetch`                                     *)
(***************************************************************************)

\* response.ok
Ok(status) == status >= 200 /\ status <= 299

\* fetch resolves with a response: the timer is cleared; a non-2xx response
\* goes on to read its body, a 2xx one sets processing first
fetchResolved(r, status, contentType) ==
    /\ r.pc = "fetch"
    /\ IF ~Ok(status) THEN
          /\ requests' = Replace(r, Request("errBody", FALSE, status, contentType))
          /\ UNCHANGED transcription
       ELSE
          /\ requests' = Replace(r, Request("okBody", FALSE, status, None))
          /\ transcription' = TranscriptionState("processing", None, None, Some(50), None)
    /\ UNCHANGED <<file, audioUrl, isPlaying, showNgrokWarning, showDebugInfo>>

\* mutant: a failed fetch is sent again
fetchRejectedWithRetry(r, error) ==
    /\ r.pc = "fetch"
    /\ Catch(error, FALSE)
    /\ requests' = Replace(r, Request("done", TRUE, 0, None))
                      (+) SetToBag({Request("fetch", TRUE, 0, None)})
    /\ UNCHANGED <<file, audioUrl, isPlaying, showDebugInfo>>

\* fetch rejects with a transport failure: clearTimeout is skipped, the
\* catch block runs
fetchRejected(r, error) ==
    /\ r.pc = "fetch"
    /\ Catch(error, FALSE)
    /\ requests' = Replace(r, Request("done", TRUE, 0, None))
    /\ UNCHANGED <<file, audioUrl, isPlaying, showDebugInfo>>

\* the 2 minute timer fires and calls controller.abort(): a pending fetch
\* rejects with an AbortError and the catch block runs; on a request whose
\* fetch has already rejected the abort does nothing
timeoutFired(r) ==
    /\ r.timer
    /\ IF r.pc = "fetch"
       THEN Catch(AbortError, FALSE)
       ELSE UNCHANGED <<transcription, showNgrokWarning>>
    /\ requests' = Remove(r)
    /\ UNCHANGED <<file, audioUrl, isPlaying, showDebugInfo>>

(***************************************************************************)
(* transcribeAudio: the non-2xx branch                                      *)
(***************************************************************************)

\* errorText after the inner try: the body by its declared content type
ErrorText(contentType, read) ==
    IF contentType # None /\ Includes(contentType[1], "application/json") THEN
        IF read # None /\ JSONparse(read[1]).ok
        THEN JSONstringify(JSONparse(read[1]).value)
        ELSE "Unable to parse error response"
    ELSE
        IF read # None THEN read[1] ELSE "Unable to parse error response"

\* "Check if this looks like the ngrok warning page"
LooksLikeNgrokWarning(errorText) ==
    \/ Includes(errorText, "ngrok.com")
    \/ Includes(errorText, "Visit Site")
    \/ Includes(errorText, "ngrok-skip-browser-warning")

\* the Error the non-2xx branch throws
ServerError(status, errorText) ==
    IF LooksLikeNgrokWarning(errorText)
    THEN Error("Error", NgrokMessage)
    ELSE Error("Error", "Server error (" \o ToString(status) \o "): " \o errorText)

\* the body read of a non-2xx response settles
errorBodyDecoded(r, read) ==
    /\ r.pc = "errBody"
    /\ LET errorText == ErrorText(r.contentType, read) IN
       Catch(ServerError(r.status, errorText), LooksLikeNgrokWarning(errorText))
    /\ requests' = Remove(r)
    /\ UNCHANGED <<file, audioUrl, isPlaying, showDebugInfo>>

(***************************************************************************)
(* transcribeAudio: the 2xx branch                                          *)
(***************************************************************************)

\* mutant: the text field is preferred to the transcript field
TranscriptOfTextFirst(result) ==
    IF Truthy(GetProp(result, "text"))
    THEN GetProp(result, "text")
    ELSE GetProp(result, "transcript")

\* result.transcript || result.text
TranscriptOf(result) ==
    IF Truthy(GetProp(result, "transcript"))
    THEN GetProp(result, "transcript")
    ELSE GetProp(result, "text")

\* what the code after `await response.text()` ends in: a transcript set, or
\* an error thrown
BodyOutcomes(read) ==
    IF read = None \/ ~JSONparse(read[1]).ok THEN
        {[thrown |-> TRUE, error |-> Error("Error", "Invalid response format from server")]}
    ELSE
        LET result == JSONparse(read[1]).value IN
        IF result.type = "null" THEN
            {[thrown |-> TRUE, error |-> e] : e \in NullReadErrors}
        ELSE IF Truthy(GetProp(result, "transcript")) \/ Truthy(GetProp(result, "text")) THEN
            {[thrown |-> FALSE, transcript |-> TranscriptOf(result)]}
        ELSE
            {[thrown |-> TRUE, error |-> Error("Error", "No transcript received from server")]}

\* the body read of a 2xx response settles
bodyDecoded(r, read) ==
    /\ r.pc = "okBody"
    /\ \E o \in BodyOutcomes(read) :
          IF o.thrown THEN Catch(o.error, FALSE)
          ELSE /\ transcription' = TranscriptionState("success", Some(o.transcript),
                                                      None, Some(100), None)
               /\ UNCHANGED showNgrokWarning
    /\ requests' = Remove(r)
    /\ UNCHANGED <<file, audioUrl, isPlaying, showDebugInfo>>

(***************************************************************************)
(* Reset and the banner and panel buttons                                   *)
(***************************************************************************)

\* mutant: the advisory is left as it was
resetAppKeepingAdvisory ==
    /\ file # None \/ transcription.status # "idle"
    /\ file' = None
    /\ audioUrl' = None
    /\ isPlaying' = FALSE
    /\ transcription' = Idle
    /\ showDebugInfo' = FALSE
    /\ UNCHANGED <<showNgrokWarning, requests>>

\* the "Upload New File" button is rendered when a file is selected or the
\* status is not idle (fileInputRef's value is DOM state, not modelled)
resetApp ==
    /\ file # None \/ transcription.status # "idle"
    /\ file' = None
    /\ audioUrl' = None
    /\ isPlaying' = FALSE
    /\ transcription' = Idle
    /\ showNgrokWarning' = FALSE
    /\ showDebugInfo' = FALSE
    /\ UNCHANGED requests

\* mutant: dismissing the advisory also clears the error it came with
dismissNgrokWarningClearingError ==
    /\ showNgrokWarning
    /\ showNgrokWarning' = FALSE
    /\ transcription' = Idle
    /\ UNCHANGED <<file, audioUrl, isPlaying, showDebugInfo, requests>>

\* the "I've visited the URL" button of the advisory
dismissNgrokWarning ==
    /\ showNgrokWarning
    /\ showNgrokWarning' = FALSE
    /\ UNCHANGED <<file, audioUrl, isPlaying, transcription, showDebugInfo, requests>>

\* the "Show/Hide Debug Info" button of the error panel
toggleDebugInfo ==
    /\ transcription.status = "error"
    /\ transcription.fullError # None
    /\ showDebugInfo' = ~showDebugInfo
    /\ UNCHANGED <<file, audioUrl, isPlaying, transcription, showNgrokWarning, requests>>

(***************************************************************************)
(* Specification                                                            *)
(***************************************************************************)

Next ==
    \/ \E f \in Files : handleFileSelect(f)
    \/ togglePlayPause
    \/ audioEnded
    \/ transcribeAudio
    \/ \E r \in BagToSet(requests), status \in Statuses, contentType \in ContentTypes :
          fetchResolved(r, status, contentType)
    \/ \E r \in BagToSet(requests), error \in TransportErrors : fetchRejected(r, error)
    \/ \E r \in BagToSet(requests) : timeoutFired(r)
    \/ \E r \in BagToSet(requests), read \in BodyReads(ErrorBodies) : errorBodyDecoded(r, read)
    \/ \E r \in BagToSet(requests), read \in BodyReads(OkBodies) : bodyDecoded(r, read)
    \/ resetApp
    \/ dismissNgrokWarning
    \/ toggleDebugInfo

Spec == Init /\ [][Next]_vars

(***************************************************************************)
(* Properties                                                               *)
(***************************************************************************)

\* the requests that have not reached their terminal outcome
Pending == [r \in {x \in BagToSet(requests) : x.pc # "done"} |-> requests[r]]

\* a string-valued field holding at least one character
NonEmptyString(v) == v.type = "string" /\ v.s # ""

\* a body text carrying one of the three interstitial markers
HasMarker(text) ==
    \/ Includes(text, "ngrok.com")
    \/ Includes(text, "Visit Site")
    \/ Includes(text, "ngrok-skip-browser-warning")

\* C1: in every reachable state at most one transcription request has not
\* yet reached its terminal outcome.
C1_AtMostOneInFlight == BagCardinality(Pending) <= 1

\* C2 as stated: a file whose type does not start with "audio/" is rejected
\* with the invalid-type reason, the selected file is kept, and the status
\* is idle afterwards.
C2_RejectedLeavesIdle ==
    [][\A f \in Files :
        (~StartsWith(f.type, "audio/") /\ handleFileSelect(f))
        => /\ file' = file
           /\ transcription'.error = Some("Please select a valid audio file")
           /\ transcription'.status = "idle"]_vars

\* C2 as amended: a file whose type does not start with "audio/" is rejected
\* with the invalid-type reason, whatever its size; the selected file and its
\* audio URL are kept, and the Request State afterwards is error carrying that
\* reason and nothing else.
C2_RejectedAsError ==
    [][\A f \in Files :
        (~StartsWith(f.type, "audio/") /\ handleFileSelect(f))
        => /\ file' = file
           /\ audioUrl' = audioUrl
           /\ transcription' = [status |-> "error", transcript |-> None,
                                error |-> Some("Please select a valid audio file"),
                                progress |-> None, fullError |-> None]]_vars

\* C2 witness: a non-audio file was rejected while another file was selected.
C2_Witness ==
    /\ file # None
    /\ transcription.status = "error"
    /\ transcription.error = Some("Please select a valid audio file")

\* C3: a file with an audio type is rejected with the too-large reason exactly
\* when its size is greater than 25*1024*1024 bytes; a rejected file leaves
\* the selected file in place, and a file of exactly that size is accepted.
C3_TooLargeExactlyAboveLimit ==
    [][\A f \in Files :
        (StartsWith(f.type, "audio/") /\ handleFileSelect(f))
        => IF f.size > 25 * 1024 * 1024
           THEN /\ transcription'.status = "error"
                /\ transcription'.error = Some("File size must be less than 25MB")
                /\ file' = file
                /\ audioUrl' = audioUrl
           ELSE /\ transcription'.error = None
                /\ file' = Some(f)]_vars

\* C3 witness: the file of exactly 25*1024*1024 bytes is selected, and a too
\* large file has been rejected after it.
C3_Witness ==
    /\ file # None
    /\ file[1].size = 25 * 1024 * 1024
    /\ transcription.error = Some("File size must be less than 25MB")

\* C4: a file that passes validation becomes the selected file and the
\* Request State becomes idle with no transcript, error, progress or bundle,
\* whatever the Request State was.
C4_AcceptedResetsToIdle ==
    [][\A f \in Files :
        (/\ StartsWith(f.type, "audio/")
         /\ f.size <= 25 * 1024 * 1024
         /\ handleFileSelect(f))
        => /\ file' = Some(f)
           /\ transcription' = [status |-> "idle", transcript |-> None, error |-> None,
                                progress |-> None, fullError |-> None]]_vars

\* C4 witness: a file is selected and the state is idle although an earlier
\* attempt failed and raised the advisory.
C4_Witness ==
    /\ file # None
    /\ transcription = Idle
    /\ showNgrokWarning

\* C5: when the timer fires on a request whose fetch is still pending, the
\* resulting state is error with the timeout message, and the advisory is
\* left as it was.
C5_TimeoutClassified ==
    [][\A r \in BagToSet(requests) :
        (r.pc = "fetch" /\ timeoutFired(r))
        => /\ transcription'.status = "error"
           /\ transcription'.error =
                Some("Request timed out. Please try again with a shorter audio file.")
           /\ showNgrokWarning' = showNgrokWarning]_vars

\* C5 witness: the timeout message is shown and the advisory is not.
C5_Witness ==
    /\ transcription.status = "error"
    /\ transcription.error =
         Some("Request timed out. Please try again with a shorter audio file.")
    /\ ~showNgrokWarning

\* C6: a non-2xx response whose body text contains one of the three markers
\* ends in error with the visit-the-API-URL message and the advisory raised,
\* whatever its status code and content type.
C6_MarkerRaisesAdvisory ==
    [][\A r \in BagToSet(requests), text \in ErrorBodies :
        (/\ r.pc = "errBody"
         /\ requests' = Remove(r)
         /\ HasMarker(text)
         /\ errorBodyDecoded(r, Some(text)))
        => /\ showNgrokWarning'
           /\ transcription'.status = "error"
           /\ transcription'.error =
                Some("Please visit the API URL first to bypass the ngrok warning page")]_vars

\* each 2xx body text of the model with what JSON.parse makes of it
ParsedOkBody == [text \in OkBodies |-> JSONparse(text)]

\* C7: a 2xx response whose body parses as an object with a non-empty
\* transcript or text field ends in success with progress 100 and the
\* transcript field's value when it is non-empty, the text field's otherwise.
C7_SuccessTranscript ==
    [][\A r \in BagToSet(requests), text \in OkBodies :
        LET p == ParsedOkBody[text]
            tr == GetProp(p.value, "transcript")
            tx == GetProp(p.value, "text")
        IN  (/\ r.pc = "okBody"
             /\ requests' = Remove(r)
             /\ p.ok
             /\ p.value.type = "object"
             /\ NonEmptyString(tr) \/ NonEmptyString(tx)
             /\ bodyDecoded(r, Some(text)))
            => transcription' =
                 [status |-> "success",
                  transcript |-> Some(IF NonEmptyString(tr) THEN tr ELSE tx),
                  error |-> None, progress |-> Some(100), fullError |-> None]]_vars

\* C7 witness: the text field's value became the transcript.
C7_Witness ==
    /\ transcription.status = "success"
    /\ transcription.transcript = Some(JString("alt text"))
    /\ transcription.progress = Some(100)

\* C8: a 2xx response whose body parses as JSON, of any value, with neither a
\* non-empty transcript field nor a non-empty text field ends in error with
\* the message "No transcript received from server" and no transcript.
C8_NoTranscriptMessage ==
    [][\A r \in BagToSet(requests), text \in OkBodies :
        LET p == ParsedOkBody[text] IN
        (/\ r.pc = "okBody"
         /\ requests' = Remove(r)
         /\ p.ok
         /\ ~NonEmptyString(GetProp(p.value, "transcript"))
         /\ ~NonEmptyString(GetProp(p.value, "text"))
         /\ bodyDecoded(r, Some(text)))
        => /\ transcription'.status = "error"
           /\ transcription'.error = Some("No transcript received from server")
           /\ transcription'.transcript = None]_vars

\* C9: resetApp in a terminal state (success or error) leaves every field at
\* its initial value: no file, no audio URL, idle with no transcript, error,
\* progress or bundle, and neither the advisory nor the debug panel shown.
C9_ResetRestoresInitial ==
    [][(transcription.status \in {"success", "error"} /\ resetApp)
        => /\ file' = None
           /\ audioUrl' = None
           /\ isPlaying' = FALSE
           /\ transcription' = [status |-> "idle", transcript |-> None, error |-> None,
                                progress |-> None, fullError |-> None]
           /\ showNgrokWarning' = FALSE
           /\ showDebugInfo' = FALSE]_vars

\* C9 witness: every field is at its initial value while the timer of a
\* request whose fetch failed is still armed, so the failure was reset.
C9_Witness ==
    /\ file = None
    /\ audioUrl = None
    /\ transcription = Idle
    /\ ~showNgrokWarning
    /\ ~showDebugInfo
    /\ \E r \in BagToSet(requests) : r.pc = "done" /\ r.timer

\* C10: a transport failure with no HTTP response that is not the timeout
\* ends in error with the unable-to-connect message and the advisory raised,
\* whatever the thrown error's name and message.
C10_TransportFailureUnableToConnect ==
    [][\A r \in BagToSet(requests), error \in TransportErrors :
        (r.pc = "fetch" /\ fetchRejected(r, error))
        => /\ transcription'.status = "error"
           /\ transcription'.error =
                Some("Unable to connect to the transcription service. Please visit the API URL first to bypass the ngrok warning page.")
           /\ showNgrokWarning']_vars

\* C11: a non-2xx response whose body contains none of the three markers
\* ends in error with a message that embeds the numeric status and the
\* decoded body, and leaves the advisory as it was, whatever else the body
\* contains.
C11_ServerErrorEmbedsStatusAndBody ==
    [][\A r \in BagToSet(requests), text \in ErrorBodies :
        (/\ r.pc = "errBody"
         /\ requests' = Remove(r)
         /\ ~HasMarker(text)
         /\ errorBodyDecoded(r, Some(text)))
        => /\ transcription'.status = "error"
           /\ transcription'.error # None
           /\ Includes(transcription'.error[1], ToString(r.status))
           /\ Includes(transcription'.error[1], ErrorText(r.contentType, Some(text)))
           /\ showNgrokWarning' = showNgrokWarning]_vars

\* C12: no response body is decoded while the status is still uploading: by
\* the time a body read settles, the response's arrival has moved the status
\* on to processing.
C12_NoDecodeWhileUploading ==
    [][\A r \in BagToSet(requests) :
        (/\ r.pc \in {"errBody", "okBody"}
         /\ requests' = Remove(r)
         /\ \/ \E read \in BodyReads(ErrorBodies) : errorBodyDecoded(r, read)
            \/ \E read \in BodyReads(OkBodies) : bodyDecoded(r, read))
        => transcription.status # "uploading"]_vars

\* the timers of the browser fire: an armed timer is not postponed for ever.
\* Nothing makes the network answer or the user act.
FairSpec == Spec /\ WF_vars(\E r \in BagToSet(requests) : timeoutFired(r))

\* C13: an attempt does not stay in uploading or processing for ever: the
\* status always leaves them again.
C13_EventuallyTerminal ==
    (transcription.status \in {"uploading", "processing"})
        ~> (transcription.status \notin {"uploading", "processing"})

\* the two messages handleFileSelect rejects a file with
ValidationMessages ==
    {"Please select a valid audio file", "File size must be less than 25MB"}

\* C14 as stated: every state whose status is error retains a diagnostic
\* bundle, whichever path produced the error.
C14_ErrorHasBundle ==
    transcription.status = "error" => transcription.fullError # None

\* C14 as amended: an error state retains a diagnostic bundle exactly when
\* transcribeAudio produced it; the error state of a validation rejection
\* carries its message and no bundle.
C14_ErrorHasBundleUnlessValidation ==
    transcription.status = "error"
    => /\ transcription.error # None
       /\ (transcription.fullError = None)
            <=> (transcription.error[1] \in ValidationMessages)

\* C14 witness: an error of a server response is shown with its bundle.
C14_Witness ==
    /\ transcription.status = "error"
    /\ transcription.error = Some("Invalid response format from server")
    /\ transcription.fullError # None

\* the state is an error state holding a diagnostic bundle
HoldsBundle == transcription.status = "error" /\ transcription.fullError # None

\* C15 as stated: once an error state holds a bundle, every step other than
\* resetApp leaves the bundle in place and unchanged.
C15_BundleKeptUntilReset ==
    [][(HoldsBundle /\ ~resetApp)
        => transcription'.fullError = transcription.fullError]_vars

\* C15 as amended: once an error state holds a bundle, the steps that do not
\* call setTranscription (dismissing the advisory, toggling the debug panel,
\* playback, the timer of a request that has already failed) leave the whole
\* Request State, bundle included, unchanged; the bundle goes with the
\* Request State when resetApp, a file selection (accepted or rejected), a
\* new submission or a request's outcome replaces it.
C15_BundleKeptWhileStateKept ==
    [][HoldsBundle
        => /\ (\/ dismissNgrokWarning
               \/ toggleDebugInfo
               \/ togglePlayPause
               \/ audioEnded
               \/ \E r \in BagToSet(requests) : r.pc = "done" /\ timeoutFired(r))
              => transcription' = transcription
           /\ transcription'.fullError # transcription.fullError
              => \/ resetApp
                 \/ \E f \in Files : handleFileSelect(f)
                 \/ transcribeAudio
                 \/ transcription'.status \in {"processing", "success", "error"}]_vars

\* C15 witness: the bundle of a failed connection is still held after the
\* advisory it raised was dismissed and the debug panel opened.
C15_Witness ==
    /\ HoldsBundle
    /\ transcription.fullError = Some([name |-> "TypeError", message |-> "Failed to fetch"])
    /\ ~showNgrokWarning
    /\ showDebugInfo

\* the POSTs sent and not yet answered
Fetching == CopiesIn(Request("fetch", TRUE, 0, None), requests)

\* C16: a POST is started only by a submit with a file selected, one per
\* submit: a file selection, accepting or rejecting, leaves the requests as
\* they are, and a step that adds a request or a pending POST is a
\* transcribeAudio step taken with a file selected and adds exactly one; so
\* no step in which a request fails sends another.
C16_PostOnlyOnSubmit ==
    [][/\ (\A f \in Files : handleFileSelect(f) => requests' = requests)
       /\ (\/ BagCardinality(requests') > BagCardinality(requests)
           \/ Fetching' > Fetching)
          => /\ file # None
             /\ transcribeAudio
             /\ Fetching' = Fetching + 1
             /\ BagCardinality(requests') = BagCardinality(requests) + 1]_vars

\* C16 witness: an attempt has failed with the file still selected and no
\* request is pending.
C16_Witness ==
    /\ file # None
    /\ transcription.status = "error"
    /\ transcription.error = Some("Load failed")
    /\ Pending = EmptyBag

\* C17: once raised, the advisory stays raised across file selections,
\* rejected selections, submissions and their outcomes; a step that lowers it
\* is resetApp or the advisory's dismiss button.
C17_AdvisoryLoweredOnlyByResetOrDismiss ==
    [][(showNgrokWarning /\ ~showNgrokWarning')
        => (resetApp \/ dismissNgrokWarning)]_vars

\* C17 witness: the advisory is still raised after a later attempt succeeded.
C17_Witness ==
    /\ showNgrokWarning
    /\ transcription.status = "success"

\* C18: in every state whose status is success a file is selected (the one
\* whose request produced the transcript).
C18_SuccessHasSelectedFile ==
    transcription.status = "success" => file # None

\* C19: the Request State's fields agree with its status tag.
C19_FieldsAgreeWithStatus ==
    LET t == transcription IN
    /\ t.status \in {"idle", "uploading", "processing", "success", "error"}
    /\ t.status = "idle"
       => t.transcript = None /\ t.error = None /\ t.progress = None /\ t.fullError = None
    /\ t.status = "uploading"
       => t.progress = Some(0) /\ t.transcript = None /\ t.error = None
    /\ t.status = "processing"
       => t.progress = Some(50) /\ t.transcript = None /\ t.error = None
    /\ t.status = "success"
       => /\ t.progress = Some(100)
          /\ t.transcript # None
          /\ Truthy(t.transcript[1])
          /\ t.error = None
          /\ t.fullError = None
    /\ t.status = "error"
       => /\ t.error # None
          /\ t.error[1] # ""
          /\ t.transcript = None

\* C19 witness: a new attempt is uploading, with the fields of the earlier
\* attempt's outcome cleared, while that attempt's request has finished.
C19_Witness ==
    /\ transcription.status = "uploading"
    /\ transcription.progress = Some(0)
    /\ transcription.error = None
    /\ \E r \in BagToSet(requests) : r.pc = "done"

====
